---- MODULE Spec2Model ----
(***************************************************************************)
(* Model of the search and data-normalisation core of pocketnavi:          *)
(*   - SupabaseApiClient (services/supabase-api): getBuildings,            *)
(*     searchBuildings, healthCheck, transformBuilding;                    *)
(*   - useSupabaseBuildings (hooks/useSupabaseBuildings): fetchBuildings   *)
(*     and its effect;                                                     *)
(*   - useSupabaseToggle (hooks/useSupabaseToggle): checkApiStatus and     *)
(*     its effect;                                                         *)
(*   - the two routes of App (HomePage, BuildingDetailPage), each of which *)
(*     mounts its own instance of both hooks.                              *)
(*                                                                         *)
(* Encodings.  A nullable value is an option: None (null) or Some(v).      *)
(* A text that the code inspects character by character (titles, the       *)
(* free-text query, the completionYears column) is a sequence of           *)
(* one-character strings.  Coordinates are integers in units of 0.001      *)
(* degree, so that radius * 0.009 degree is radius * 9 units.              *)
(***************************************************************************)
EXTENDS Integers, Sequences, FiniteSets, TLC

None == <<>>
Some(v) == <<v>>

(***************************************************************************)
(* Bounds of the model.                                                    *)
(***************************************************************************)
MaxRows == 3
MaxPage == 2
MaxLimit == 2
MaxNavigations == 1
MaxInflight == 1
MaxHistoryCount == 2

(***************************************************************************)
(* Program constants.                                                      *)
(***************************************************************************)
itemsPerPage == 10
detailLimit == 1000
homeRadius == 5
\* new Date().getFullYear(): the clock, fixed for the model.
CurrentYear == 2026

(***************************************************************************)
(* Text helpers: String.prototype.trim / toLowerCase / includes, and the   *)
(* backend's ILIKE '%q%'.                                                  *)
(***************************************************************************)
LowerChar(c) == IF c = "A" THEN "a" ELSE IF c = "B" THEN "b" ELSE c

ToLower(s) == [i \in 1..Len(s) |-> LowerChar(s[i])]

RECURSIVE TrimLeft(_)
TrimLeft(s) ==
  IF s # <<>> /\ Head(s) = " " THEN TrimLeft(Tail(s)) ELSE s

RECURSIVE TrimRight(_)
TrimRight(s) ==
  IF s # <<>> /\ s[Len(s)] = " " THEN TrimRight(SubSeq(s, 1, Len(s) - 1)) ELSE s

Trim(s) == TrimRight(TrimLeft(s))

Includes(s, q) ==
  \E i \in 0..(Len(s) - Len(q)) : SubSeq(s, i + 1, i + Len(q)) = q

\* column ILIKE '%q%': case-insensitive containment; a NULL column never matches.
ILike(col, q) == col # None /\ Includes(ToLower(col[1]), ToLower(q))

(***************************************************************************)
(* parseInt(year, 10) on the characters the model draws years from         *)
(* (digits and a letter): the value of the leading digits, NaN (None) when *)
(* there is none.                                                          *)
(***************************************************************************)
Digits == <<"0", "1", "2", "3", "4", "5", "6", "7", "8", "9">>

IsDigit(c) == \E i \in 1..10 : Digits[i] = c

DigitVal(c) == (CHOOSE i \in 1..10 : Digits[i] = c) - 1

\* Code point of a character of a year text: digits sort before letters.
CharCode(c) == IF IsDigit(c) THEN 48 + DigitVal(c) ELSE 117

RECURSIVE DigitPrefix(_)
DigitPrefix(s) ==
  IF s = <<>> \/ ~IsDigit(Head(s)) THEN <<>>
  ELSE <<Head(s)>> \o DigitPrefix(Tail(s))

RECURSIVE DigitsValue(_, _)
DigitsValue(s, acc) ==
  IF s = <<>> THEN acc ELSE DigitsValue(Tail(s), acc * 10 + DigitVal(Head(s)))

parseInt(s) ==
  LET d == DigitPrefix(s)
  IN  IF d = <<>> THEN None ELSE Some(DigitsValue(d, 0))

\* transformBuilding.parseYear
parseYear(year) ==
  IF year = None \/ year[1] = <<>> THEN CurrentYear
  ELSE LET parsed == parseInt(year[1])
       IN  IF parsed = None THEN CurrentYear ELSE parsed[1]

(***************************************************************************)
(* Raw rows of buildings_table_2 with the embedded building_architects     *)
(* relation, as the select of getBuildings / searchBuildings returns them. *)
(***************************************************************************)
Architect(id) ==
  [architects_table |-> Some([architect_id |-> id, architectJa |-> "ja", architectEn |-> None])]

\* A join entry whose nested architect record is null.
OrphanJoin == [architects_table |-> None]

\* A row of the photos relation embedded by photos(*).
Photo(id) == [photo_id |-> id, url |-> "p.jpg"]

\* The comma-separated taxonomy columns and the embedded photos relation are
\* the same in every candidate row; RawRows varies them.
Row(id, title, titleEn, location, thumb, video, year, pref, lat, lng, archs) ==
  [building_id |-> id, title |-> title, titleEn |-> titleEn, location |-> location,
   thumbnailUrl |-> thumb, youtubeUrl |-> video, completionYears |-> year,
   prefectures |-> pref, lat |-> lat, lng |-> lng, building_architects |-> archs,
   parentBuildingTypes |-> None, buildingTypes |-> Some(<<"m">>),
   parentStructures |-> None, structures |-> None,
   photos |-> Some(<<>>)]

CandidateRows ==
  { Row(1, <<"A", "b">>, None, <<"b">>, Some("t.jpg"), Some("v"),
        Some(<<"1", "9", "9", "0">>), Some("Tokyo"), Some(35000), Some(139000),
        <<Architect(1)>>),
    Row(2, <<"b">>, Some(<<"a", " ", "b">>), <<"b">>, None, None,
        Some(<<"7", "9", "4">>), Some("Osaka"), None, None,
        <<Architect(1), Architect(2)>>),
    Row(3, <<"b", "B">>, Some(<<>>), <<"A">>, Some(""), Some(""),
        None, Some("Tokyo"), Some(35040), Some(139050),
        <<Architect(2)>>),
    Row(4, <<"a">>, Some(<<"b">>), <<"b">>, Some("t.jpg"), None,
        Some(<<"2", "0", "3", "0">>), None, Some(36000), Some(139000),
        <<Architect(1)>>),
    Row(5, <<"a", "b">>, None, <<"b">>, Some("t.jpg"), Some("v"),
        Some(<<"u">>), Some("Osaka"), Some(35000), Some(139000),
        <<>>),
    Row(6, <<"b">>, None, <<"a">>, Some("t.jpg"), None,
        Some(<<"2", "0", "0", "0">>), Some("Tokyo"), Some(35010), Some(139010),
        <<OrphanJoin>>) }

Tables == {t \in SUBSET CandidateRows : Cardinality(t) <= MaxRows}

(***************************************************************************)
(* SearchFilters.                                                          *)
(***************************************************************************)
Filters(q, types, prefs, photos, videos, loc) ==
  [query |-> q, radius |-> homeRadius, buildingTypes |-> types, prefectures |-> prefs,
   hasPhotos |-> photos, hasVideos |-> videos, currentLocation |-> loc]

\* HomePage's initial filters; also BuildingDetailPage's detailPageFilters.
defaultFilters == Filters(<<>>, {}, {}, FALSE, FALSE, None)

FilterSet ==
  { Filters(q, types, prefs, photos, videos, loc) :
      q \in {<<>>, <<"a">>, <<" ">>},
      types \in {{}, {"museum"}},
      prefs \in {{}, {"Tokyo"}},
      photos \in BOOLEAN,
      videos \in BOOLEAN,
      loc \in {None, Some([lat |-> 35000, lng |-> 139000])} }

(***************************************************************************)
(* Row Normalizer: SupabaseApiClient.transformBuilding.                    *)
(***************************************************************************)
\* ba.architects_table.architect_id dereferences the nested record: a join
\* entry whose architects_table is null makes the map callback throw a
\* TypeError.
transformThrows(data) ==
  \E i \in 1..Len(data.building_architects) :
    data.building_architects[i].architects_table = None

\* x || fallback for a nullable text held as TLA+ string.
OrElseStr(x, fallback) == IF x = None \/ x[1] = "" THEN fallback ELSE x[1]

\* parseFloat(x) || 0 for a nullable number.
OrZero(x) == IF x = None THEN 0 ELSE x[1]

transformArchitect(ba) ==
  LET a == ba.architects_table[1]
  IN  [architect_id |-> a.architect_id, architectJa |-> a.architectJa,
       architectEn |-> OrElseStr(a.architectEn, a.architectJa)]

\* str.split(','): the pieces between the commas.
RECURSIVE Split(_, _)
Split(s, piece) ==
  IF s = <<>> THEN <<piece>>
  ELSE IF Head(s) = "," THEN <<piece>> \o Split(Tail(s), <<>>)
  ELSE Split(Tail(s), Append(piece, Head(s)))

\* transformBuilding.parseCommaSeparated on a nullable text column.
parseCommaSeparated(str) ==
  IF str = None \/ str[1] = <<>> THEN <<>>
  ELSE LET pieces == Split(str[1], <<>>)
           trimmed == [i \in 1..Len(pieces) |-> Trim(pieces[i])]
       IN  SelectSeq(trimmed, LAMBDA x : Len(x) > 0)

transformBuilding(data) ==
  [id |-> data.building_id,
   title |-> data.title,
   titleEn |-> IF data.titleEn = None \/ data.titleEn[1] = <<>>
               THEN data.title ELSE data.titleEn[1],
   thumbnailUrl |-> OrElseStr(data.thumbnailUrl, ""),
   youtubeUrl |-> OrElseStr(data.youtubeUrl, ""),
   completionYears |-> parseYear(data.completionYears),
   prefectures |-> data.prefectures,
   location |-> data.location,
   lat |-> OrZero(data.lat),
   lng |-> OrZero(data.lng),
   architects |-> [i \in 1..Len(data.building_architects) |->
                     transformArchitect(data.building_architects[i])],
   parentBuildingTypes |-> parseCommaSeparated(data.parentBuildingTypes),
   buildingTypes |-> parseCommaSeparated(data.buildingTypes),
   parentStructures |-> parseCommaSeparated(data.parentStructures),
   structures |-> parseCommaSeparated(data.structures),
   \* photos: [] and likes: 0, whatever the row carries
   photos |-> <<>>,
   likes |-> 0]

\* A call of transformBuilding on a raw row: the Building, or the TypeError
\* thrown while mapping the join entries.
normalize(data) ==
  IF transformThrows(data) THEN [kind |-> "TypeError"]
  ELSE [kind |-> "ok", building |-> transformBuilding(data)]

\* !str when str is an array: false, also for the empty array.
ArrayIsFalsy(arr) == FALSE

\* transformBuilding called on a Building it returned.  The taxonomy fields
\* are arrays now: parseCommaSeparated goes past `if (!str) return []` to
\* str.split(','), which an array does not have, and the call throws a
\* TypeError.
renormalize(b) ==
  IF ~ArrayIsFalsy(b.parentBuildingTypes) THEN [kind |-> "TypeError"]
  ELSE [kind |-> "ok", building |-> b]

\* Raw rows with each nullable column and embedded relation null, blank or
\* set.
RawRows ==
  { [Row(1, <<"A", "b">>, titleEn, <<"b">>, thumb, thumb, year, Some("Tokyo"), lat, lat, archs)
       EXCEPT !.parentBuildingTypes = tax, !.structures = tax, !.photos = photos] :
      titleEn \in {None, Some(<<>>), Some(<<"a">>)},
      thumb \in {None, Some(""), Some("t.jpg")},
      year \in {None, Some(<<>>), Some(<<"u">>), Some(<<"1", "9", "9", "0">>)},
      lat \in {None, Some(35000)},
      archs \in {<<>>, <<Architect(1)>>, <<OrphanJoin>>, <<Architect(1), OrphanJoin>>},
      tax \in {None, Some(<<>>), Some(<<" ", "a", ",", " ", ",", "b", " ">>)},
      photos \in {None, Some(<<>>), Some(<<Photo(1), Photo(2)>>)} }

(***************************************************************************)
(* The backend (PostgREST) side of a select on buildings_table_2.          *)
(***************************************************************************)
\* building_architects!inner(...): a building without a join entry is not
\* returned.
InnerJoined(table) == {r \in table : r.building_architects # <<>>}

RECURSIVE TextLeq(_, _)
TextLeq(a, b) ==
  IF a = <<>> THEN TRUE
  ELSE IF b = <<>> THEN FALSE
  ELSE IF CharCode(Head(a)) # CharCode(Head(b)) THEN CharCode(Head(a)) < CharCode(Head(b))
  ELSE TextLeq(Tail(a), Tail(b))

\* .order('completionYears', { ascending: true }) on the text column:
\* ascending text order, NULLs last.
DbLeq(y1, y2) ==
  IF y2 = None THEN TRUE
  ELSE IF y1 = None THEN FALSE
  ELSE TextLeq(y1[1], y2[1])

\* Every sequence the backend may return for the whole (joined) table: rows
\* in ascending order of the column, rows with equal keys in any order.
RECURSIVE OrderedSeqs(_)
OrderedSeqs(S) ==
  IF S = {} THEN {<<>>}
  ELSE UNION { {<<r>> \o t : t \in OrderedSeqs(S \ {r})} :
               r \in {m \in S : \A o \in S : DbLeq(m.completionYears, o.completionYears)} }

Orderings(table) == OrderedSeqs(InnerJoined(table))

\* .range(start, end): the rows at zero-based offsets start..end, fewer when
\* the sequence is shorter.
Range(seq, start, end) ==
  IF start >= Len(seq) THEN <<>>
  ELSE SubSeq(seq, start + 1, IF end + 1 < Len(seq) THEN end + 1 ELSE Len(seq))

(***************************************************************************)
(* Remote Data Gateway: SupabaseApiClient.  A call's outcome is a record   *)
(* of kind "ok", "SupabaseApiError" (thrown on a backend error) or         *)
(* "TypeError" (thrown by transformBuilding).  `ord` is the backend's      *)
(* ordering of the table and `dbError` whether the backend answers with an *)
(* error.                                                                  *)
(***************************************************************************)
Ok(bs, n) == [kind |-> "ok", buildings |-> bs, total |-> n]

ApiError(status) == [kind |-> "SupabaseApiError", status |-> status]

TypeError == [kind |-> "TypeError"]

\* buildings?.map(this.transformBuilding) || [] and total: count || 0
Transformed(data, count) ==
  IF \E i \in 1..Len(data) : transformThrows(data[i]) THEN TypeError
  ELSE Ok([i \in 1..Len(data) |-> transformBuilding(data[i])],
          IF count = None THEN 0 ELSE count[1])

getBuildings(ord, dbError, page, limit) ==
  LET start == (page - 1) * limit
      end == start + limit - 1
      data == Range(ord, start, end)
      \* select(...) is given no { count } option: the response's count is null
      count == None
  IN  IF dbError THEN ApiError(500) ELSE Transformed(data, count)

\* The clauses searchBuildings adds to the query, as the backend evaluates
\* them on a row.
RowMatches(r, f) ==
  /\ Trim(f.query) # <<>> =>
       \/ ILike(Some(r.title), f.query)
       \/ ILike(r.titleEn, f.query)
       \/ ILike(Some(r.location), f.query)
  /\ f.prefectures # {} =>
       r.prefectures # None /\ r.prefectures[1] \in f.prefectures
  /\ f.hasPhotos => r.thumbnailUrl # None
  /\ f.hasVideos => r.youtubeUrl # None
  /\ f.currentLocation # None =>
       LET c == f.currentLocation[1]
       IN  /\ r.lat # None /\ r.lng # None
           /\ r.lat[1] >= c.lat - f.radius * 9
           /\ r.lat[1] <= c.lat + f.radius * 9
           /\ r.lng[1] >= c.lng - f.radius * 11
           /\ r.lng[1] <= c.lng + f.radius * 11

searchBuildings(ord, dbError, f) ==
  LET data == SelectSeq(ord, LAMBDA r : RowMatches(r, f))
      \* select(..., { count: 'exact' })
      count == Some(Len(data))
  IN  IF dbError THEN ApiError(500) ELSE Transformed(data, count)

\* The rows of a set in ascending building_id order.
RECURSIVE ById(_)
ById(S) ==
  IF S = {} THEN <<>>
  ELSE LET first == CHOOSE r \in S : \A o \in S : r.building_id <= o.building_id
       IN  <<first>> \o ById(S \ {first})

\* .eq('building_id', id).single() on the joined select: PostgREST answers
\* with an error unless exactly one row is selected; any error, the
\* backend's included, is thrown with status 404.
getBuildingById(tbl, dbError, id) ==
  LET rows == {r \in InnerJoined(tbl) : r.building_id = id}
  IN  IF dbError \/ Cardinality(rows) # 1 THEN ApiError(404)
      ELSE normalize(CHOOSE r \in rows : TRUE)

\* The filters getNearbyBuildings hands to searchBuildings when the
\* nearby_buildings procedure fails.
nearbyFallbackFilters(lat, lng, radius) ==
  [query |-> <<>>, radius |-> radius, buildingTypes |-> {}, prefectures |-> {},
   hasPhotos |-> FALSE, hasVideos |-> FALSE,
   currentLocation |-> Some([lat |-> lat, lng |-> lng])]

\* getNearbyBuildings: `rpcRows` are the rows the nearby_buildings procedure
\* returned and `rpcError` whether it failed; the fallback is returned as
\* searchBuildings' promise, a rejection included.
getNearbyBuildings(rpcError, rpcRows, ord, dbError, lat, lng, radius) ==
  IF rpcError
  THEN LET result == searchBuildings(ord, dbError, nearbyFallbackFilters(lat, lng, radius))
       IN  IF result.kind = "ok" THEN [kind |-> "ok", buildings |-> result.buildings]
           ELSE result
  ELSE IF \E i \in 1..Len(rpcRows) : transformThrows(rpcRows[i]) THEN TypeError
  ELSE [kind |-> "ok", buildings |-> [i \in 1..Len(rpcRows) |-> transformBuilding(rpcRows[i])]]

\* .limit(10) of getSearchSuggestions and getPopularSearches
suggestionLimit == 10

\* The rows the suggestions query may return: the rows whose title or
\* titleEn matches, at most suggestionLimit of them; the query has no order,
\* so which of them is the backend's choice.
SuggestionRowSets(tbl, query) ==
  LET matching == {r \in tbl : ILike(Some(r.title), query) \/ ILike(r.titleEn, query)}
  IN  IF Cardinality(matching) <= suggestionLimit THEN {matching}
      ELSE {S \in SUBSET matching : Cardinality(S) = suggestionLimit}

\* suggestions.add(x) on a Set kept in insertion order
SetAdd(acc, x) == IF \E i \in 1..Len(acc) : acc[i] = x THEN acc ELSE Append(acc, x)

\* data?.forEach(item => ...) of getSearchSuggestions
RECURSIVE collectSuggestions(_, _, _)
collectSuggestions(data, query, acc) ==
  IF data = <<>> THEN acc
  ELSE LET item == Head(data)
           withTitle == IF Includes(ToLower(item.title), ToLower(query))
                        THEN SetAdd(acc, item.title) ELSE acc
           withTitleEn == IF item.titleEn # None /\ Includes(ToLower(item.titleEn[1]), ToLower(query))
                          THEN SetAdd(withTitle, item.titleEn[1]) ELSE withTitle
       IN  collectSuggestions(Tail(data), query, withTitleEn)

getSearchSuggestions(data, dbError, query) ==
  IF dbError THEN [kind |-> "ok", suggestions |-> <<>>]
  ELSE [kind |-> "ok", suggestions |-> collectSuggestions(data, query, <<>>)]

\* The fixed list getPopularSearches returns on a backend error (the
\* queries are Japanese words in the source, transliterated here).
fixedPopularSearches ==
  << [query |-> "Ando Tadao", count |-> 45], [query |-> "bijutsukan", count |-> 38],
     [query |-> "Tokyo", count |-> 32], [query |-> "gendai kenchiku", count |-> 28] >>

\* getPopularSearches: `data` is the search_logs answer, null (None) or rows.
getPopularSearches(data, dbError) ==
  IF dbError THEN [kind |-> "ok", searches |-> fixedPopularSearches]
  ELSE [kind |-> "ok", searches |-> IF data = None THEN <<>> ELSE data[1]]

(***************************************************************************)
(* utils/search searchBuildings (the local predicate) and data/mockData    *)
(* mockBuildings.                                                          *)
(***************************************************************************)
MockSize == 11

MockBuilding(i) ==
  [id |-> 100 + i,
   title |-> IF i % 2 = 0 THEN <<"A", "b">> ELSE <<"b">>,
   titleEn |-> IF i % 4 = 1 THEN <<"a">> ELSE <<"b">>,
   thumbnailUrl |-> IF i % 3 = 0 THEN "" ELSE "m.jpg",
   youtubeUrl |-> IF i % 5 = 0 THEN "y" ELSE "",
   completionYears |-> 1950 + i,
   prefectures |-> IF i % 2 = 0 THEN Some("Tokyo") ELSE Some("Osaka"),
   location |-> <<"b">>,
   lat |-> 35000 + 10 * i,
   lng |-> 139000,
   architects |-> <<>>,
   parentBuildingTypes |-> <<>>,
   buildingTypes |-> <<<<"m">>>>,
   parentStructures |-> <<>>,
   structures |-> <<>>,
   photos |-> <<>>,
   likes |-> 0]

mockBuildings == [i \in 1..MockSize |-> MockBuilding(i)]

BuildingMatches(b, f) ==
  LET q == ToLower(Trim(f.query))
  IN  /\ q # <<>> =>
           \/ Includes(ToLower(b.title), q)
           \/ Includes(ToLower(b.titleEn), q)
           \/ Includes(ToLower(b.location), q)
      /\ f.prefectures # {} =>
           b.prefectures # None /\ b.prefectures[1] \in f.prefectures
      /\ f.hasPhotos => b.thumbnailUrl # ""
      /\ f.hasVideos => b.youtubeUrl # ""
      /\ f.currentLocation # None =>
           LET c == f.currentLocation[1]
           IN  /\ b.lat >= c.lat - f.radius * 9
               /\ b.lat <= c.lat + f.radius * 9
               /\ b.lng >= c.lng - f.radius * 11
               /\ b.lng <= c.lng + f.radius * 11

utilsSearchBuildings(bs, f) == SelectSeq(bs, LAMBDA b : BuildingMatches(b, f))

\* filtered.slice(startIndex, startIndex + limit)
Slice(seq, startIndex, endIndex) ==
  IF startIndex >= Len(seq) THEN <<>>
  ELSE SubSeq(seq, startIndex + 1, IF endIndex < Len(seq) THEN endIndex ELSE Len(seq))


(***************************************************************************)
(* State.                                                                  *)
(***************************************************************************)
VARIABLES
  flag,              \* import.meta.env.VITE_USE_SUPABASE === 'true'
  table,             \* the rows of buildings_table_2
  route,             \* the mounted page: "home" or "detail"
  navigations,       \* number of route changes so far
  useApi,            \* useSupabaseToggle: useApi of the mounted page
  apiStatus,         \* useSupabaseToggle: apiStatus of the mounted page
  toggleEffect,      \* useEffect(..., [useApi]) of useSupabaseToggle is due
  probes,            \* healthCheck calls in flight
  okHere,            \* history: a healthCheck of the mounted page succeeded
  okEver,            \* history: a healthCheck succeeded in this session
  failedHere,        \* history: a healthCheck of the mounted page failed
  failedEver,        \* history: a healthCheck failed in this session
  filters,           \* HomePage: filters
  currentPage,       \* HomePage: currentPage
  filteredBuildings, \* HomePage: filteredBuildings
  searchHistory,     \* HomePage: searchHistory (query and count of each entry)
  filtersChanged,    \* history: setFilters was called since HomePage's effect last ran
  homeEffect,        \* useEffect(..., [useApi, buildings, filters, ...]) of HomePage is due
  buildings,         \* useSupabaseBuildings: buildings
  total,             \* useSupabaseBuildings: total
  loading,           \* useSupabaseBuildings: loading
  error,             \* useSupabaseBuildings: error
  fetchEffect,       \* useEffect(..., [filters..., page, limit, useApi]) is due
  inflight,          \* gateway calls of fetchBuildings awaiting their response
  lastFetch,         \* history: how the fetchBuildings run that last settled was served
  gwCall,            \* a direct call of the gateway: operation and arguments
  gwResp,            \* its outcome
  likes,             \* the backend's like counters, by target
  likeCalls          \* the likeBuilding / likePhoto calls made, oldest first

envVars == <<flag, table>>
toggleVars == <<useApi, apiStatus, toggleEffect, probes>>
historyVars == <<okHere, okEver, failedHere, failedEver>>
pageVars == <<filters, currentPage, filteredBuildings, searchHistory, filtersChanged>>
hookVars == <<buildings, total, loading, error, inflight, lastFetch>>
likeVars == <<likes, likeCalls>>
gwVars == <<gwCall, gwResp, likeVars>>
vars == <<envVars, route, navigations, toggleVars, historyVars, pageVars, homeEffect,
          hookVars, fetchEffect, gwVars>>

\* The buildings and photos a like is given to.
LikeTargets == {[kind |-> k, id |-> i] : k \in {"building", "photo"}, i \in 1..2}

InitLikes ==
  /\ likes = [t \in LikeTargets |-> 0]
  /\ likeCalls = <<>>

RowsById(ids) == {r \in CandidateRows : r.building_id \in ids}

\* The tables the pages run against: one whose rows all normalise, one with
\* a join entry whose architect record is null.
PageTables == {RowsById({1, 2, 4}), RowsById({1, 3, 6})}

\* The filters a user selects in SearchForm.
PageFilters ==
  { defaultFilters,
    Filters(<<"a">>, {}, {}, FALSE, FALSE, None) }

NoFetch == [src |-> "none", afterFailure |-> FALSE, afterFailureHere |-> FALSE]

\* A page is mounted: the useState initialisers of useSupabaseToggle,
\* HomePage and useSupabaseBuildings, and every effect of the page due.
Mount(r) ==
  /\ route' = r
  /\ useApi' = flag
  /\ apiStatus' = "checking"
  /\ toggleEffect' = TRUE
  /\ probes' = 0
  /\ okHere' = FALSE
  /\ failedHere' = FALSE
  /\ filters' = defaultFilters
  /\ currentPage' = 1
  /\ filteredBuildings' = <<>>
  /\ searchHistory' = <<>>
  /\ filtersChanged' = FALSE
  /\ homeEffect' = (r = "home")
  /\ buildings' = <<>>
  /\ total' = 0
  /\ loading' = FALSE
  /\ error' = None
  /\ fetchEffect' = TRUE
  /\ inflight' = <<>>
  /\ lastFetch' = NoFetch

InitPage ==
  /\ route \in {"home", "detail"}
  /\ navigations = 0
  /\ okEver = FALSE
  /\ failedEver = FALSE
  /\ useApi = flag
  /\ apiStatus = "checking"
  /\ toggleEffect = TRUE
  /\ probes = 0
  /\ okHere = FALSE
  /\ failedHere = FALSE
  /\ filters = defaultFilters
  /\ currentPage = 1
  /\ filteredBuildings = <<>>
  /\ searchHistory = <<>>
  /\ filtersChanged = FALSE
  /\ homeEffect = (route = "home")
  /\ buildings = <<>>
  /\ total = 0
  /\ loading = FALSE
  /\ error = None
  /\ fetchEffect = TRUE
  /\ inflight = <<>>
  /\ lastFetch = NoFetch

Init ==
  /\ flag \in BOOLEAN
  /\ table \in PageTables
  /\ InitPage
  /\ gwCall = [op |-> "none"]
  /\ gwResp = [kind |-> "none"]
  /\ InitLikes

(***************************************************************************)
(* Scheduling.  The effects of a render run, in the order the hooks are    *)
(* called (useSupabaseToggle, useSupabaseBuildings, HomePage), before any  *)
(* response or user event is handled.                                      *)
(***************************************************************************)
FetchReady == fetchEffect /\ (~useApi \/ Len(inflight) < MaxInflight)

EffectsFlushed == ~toggleEffect /\ ~FetchReady /\ ~homeEffect

(***************************************************************************)
(* useSupabaseToggle.                                                      *)
(***************************************************************************)
\* The effect's checkApiStatus up to its first await: with useApi off it
\* sets 'unavailable' and returns; otherwise it invokes healthCheck.
checkApiStatus_AlwaysProbes ==
  /\ toggleEffect
  /\ toggleEffect' = FALSE
  /\ probes' = probes + 1
  /\ UNCHANGED apiStatus
  /\ UNCHANGED <<envVars, route, navigations, useApi, historyVars, pageVars, homeEffect,
                 hookVars, fetchEffect, gwVars>>

checkApiStatus_ResetsStatus ==
  /\ toggleEffect
  /\ toggleEffect' = FALSE
  /\ IF ~useApi
       THEN /\ apiStatus' = "checking"
            /\ UNCHANGED probes
       ELSE /\ probes' = probes + 1
            /\ UNCHANGED apiStatus
  /\ UNCHANGED <<envVars, route, navigations, useApi, historyVars, pageVars, homeEffect,
                 hookVars, fetchEffect, gwVars>>

checkApiStatus ==
  /\ toggleEffect
  /\ toggleEffect' = FALSE
  /\ IF ~useApi
       THEN /\ apiStatus' = "unavailable"
            /\ UNCHANGED probes
       ELSE /\ probes' = probes + 1
            /\ UNCHANGED apiStatus
  /\ UNCHANGED <<envVars, route, navigations, useApi, historyVars, pageVars, homeEffect,
                 hookVars, fetchEffect, gwVars>>

\* SupabaseApiClient.healthCheck: throws SupabaseApiError(500) when the
\* minimal query comes back with an error.
healthCheck(dbError) ==
  IF dbError THEN ApiError(500)
  ELSE [kind |-> "ok", status |-> "ok", database |-> "supabase"]

\* await healthCheck() returned: setApiStatus('available').
checkSucceeded_TurnsOff ==
  /\ EffectsFlushed
  /\ probes > 0
  /\ \E dbError \in BOOLEAN : healthCheck(dbError).kind = "ok"
  /\ probes' = probes - 1
  /\ apiStatus' = "available"
  /\ useApi' = FALSE
  /\ toggleEffect' = FALSE
  /\ okHere' = TRUE
  /\ okEver' = TRUE
  /\ UNCHANGED <<envVars, route, navigations, failedHere,
                 failedEver, pageVars, homeEffect, hookVars, fetchEffect, gwVars>>

checkSucceeded ==
  /\ EffectsFlushed
  /\ probes > 0
  /\ \E dbError \in BOOLEAN : healthCheck(dbError).kind = "ok"
  /\ probes' = probes - 1
  /\ apiStatus' = "available"
  /\ okHere' = TRUE
  /\ okEver' = TRUE
  /\ UNCHANGED <<envVars, route, navigations, useApi, toggleEffect, failedHere,
                 failedEver, pageVars, homeEffect, hookVars, fetchEffect, gwVars>>

\* The catch block: setApiStatus('unavailable'); setUseApi(false).  A change
\* of useApi makes the effects that depend on it due.
checkFailed_KeepsUseApi ==
  /\ EffectsFlushed
  /\ probes > 0
  /\ \E dbError \in BOOLEAN : healthCheck(dbError).kind = "SupabaseApiError"
  /\ probes' = probes - 1
  /\ apiStatus' = "unavailable"
  /\ failedHere' = TRUE
  /\ failedEver' = TRUE
  /\ UNCHANGED <<envVars, route, navigations, useApi, toggleEffect, okHere, okEver,
                 pageVars, homeEffect, hookVars, fetchEffect, gwVars>>

checkFailed_SetsAvailable ==
  /\ EffectsFlushed
  /\ probes > 0
  /\ \E dbError \in BOOLEAN : healthCheck(dbError).kind = "SupabaseApiError"
  /\ probes' = probes - 1
  /\ apiStatus' = "available"
  /\ useApi' = FALSE
  /\ toggleEffect' = (toggleEffect \/ useApi)
  /\ fetchEffect' = (fetchEffect \/ useApi)
  /\ homeEffect' = (homeEffect \/ (useApi /\ route = "home"))
  /\ failedHere' = TRUE
  /\ failedEver' = TRUE
  /\ UNCHANGED <<envVars, route, navigations, okHere, okEver, pageVars, hookVars, gwVars>>

checkFailed ==
  /\ EffectsFlushed
  /\ probes > 0
  /\ \E dbError \in BOOLEAN : healthCheck(dbError).kind = "SupabaseApiError"
  /\ probes' = probes - 1
  /\ apiStatus' = "unavailable"
  /\ useApi' = FALSE
  /\ toggleEffect' = (toggleEffect \/ useApi)
  /\ fetchEffect' = (fetchEffect \/ useApi)
  /\ homeEffect' = (homeEffect \/ (useApi /\ route = "home"))
  /\ failedHere' = TRUE
  /\ failedEver' = TRUE
  /\ UNCHANGED <<envVars, route, navigations, okHere, okEver, pageVars, hookVars, gwVars>>

(***************************************************************************)
(* App: the routes.  A route change unmounts the page and mounts the       *)
(* other one; the hooks of the new page start from their initial state,    *)
(* and what the old page still awaits settles on an unmounted component.   *)
(***************************************************************************)
navigate ==
  /\ EffectsFlushed
  /\ navigations < MaxNavigations
  /\ navigations' = navigations + 1
  /\ Mount(IF route = "home" THEN "detail" ELSE "home")
  /\ UNCHANGED <<envVars, okEver, failedEver, gwVars>>

(***************************************************************************)
(* HomePage.                                                               *)
(***************************************************************************)
\* Math.ceil(n / itemsPerPage)
CeilDiv(n, d) == (n + d - 1) \div d

totalPages == CeilDiv(IF useApi THEN total ELSE Len(filteredBuildings), itemsPerPage)

\* SearchForm's onFiltersChange = setFilters.
onFiltersChange(f) ==
  /\ EffectsFlushed
  /\ route = "home"
  /\ f # filters
  /\ filters' = f
  /\ fetchEffect' = TRUE
  /\ homeEffect' = TRUE
  /\ filtersChanged' = TRUE
  /\ UNCHANGED <<envVars, route, navigations, toggleVars, historyVars, currentPage,
                 filteredBuildings, searchHistory, hookVars, gwVars>>

FiltersChange == \E f \in PageFilters : onFiltersChange(f)

\* SearchHistoryComponent's onSearchClick on an entry: setFilters(prev =>
\* ({ ...prev, query })), a new filters object with the entry's query.
handleSearchFromHistory(query) ==
  /\ EffectsFlushed
  /\ route = "home"
  /\ \E i \in 1..Len(searchHistory) : searchHistory[i].query = query
  /\ filters' = [filters EXCEPT !.query = query]
  /\ fetchEffect' = (fetchEffect \/ query # filters.query)
  /\ homeEffect' = TRUE
  /\ filtersChanged' = TRUE
  /\ UNCHANGED <<envVars, route, navigations, toggleVars, historyVars, currentPage,
                 filteredBuildings, searchHistory, hookVars, gwVars>>

SearchFromHistory == \E f \in PageFilters : handleSearchFromHistory(f.query)

\* A pagination button, rendered when totalPages > 1: a page number, or
\* the previous / next page.
handlePageChange(page) ==
  /\ EffectsFlushed
  /\ route = "home"
  /\ totalPages > 1
  /\ \/ page \in 1..totalPages
     \/ currentPage # 1 /\ page = currentPage - 1
     \/ currentPage # totalPages /\ page = currentPage + 1
  /\ page # currentPage
  /\ currentPage' = page
  /\ fetchEffect' = TRUE
  /\ UNCHANGED <<envVars, route, navigations, toggleVars, historyVars, filters,
                 filteredBuildings, searchHistory, filtersChanged, homeEffect, hookVars, gwVars>>

PageChange == \E page \in 1..(totalPages + 1) : handlePageChange(page)

\* prev.slice(0, 19): the entries kept behind a new one.
historyKept == 19

\* searchHistory.findIndex(h => h.query === filters.query), 0 for -1.
historyIndex(history, query) ==
  IF \E i \in 1..Len(history) : history[i].query = query
  THEN CHOOSE i \in 1..Len(history) :
         /\ history[i].query = query
         /\ \A j \in 1..(i - 1) : history[j].query # query
  ELSE 0

\* The array the effect hands to setSearchHistory: the entry of the query
\* with its count raised, or a new entry in front of the first 19.
recordSearch(history, query) ==
  LET existingIndex == historyIndex(history, query)
  IN  IF existingIndex > 0
      THEN [history EXCEPT ![existingIndex].count = @ + 1]
      ELSE <<[query |-> query, count |-> 1]>>
             \o SubSeq(history, 1, IF Len(history) < historyKept THEN Len(history) ELSE historyKept)

\* The model follows an entry's count up to MaxHistoryCount.
HistoryCapped ==
  LET existingIndex == historyIndex(searchHistory, filters.query)
  IN  existingIndex > 0 /\ searchHistory[existingIndex].count >= MaxHistoryCount

\* The effect on [useApi, buildings, filters, searchHistory]:
\* setFilteredBuildings, setCurrentPage(1) and, when the query is not
\* blank, setSearchHistory with a new array, which makes the effect due again.
filterEffect ==
  /\ ~toggleEffect
  /\ ~FetchReady
  /\ homeEffect
  /\ filteredBuildings' = IF useApi THEN buildings
                          ELSE utilsSearchBuildings(buildings, filters)
  /\ currentPage' = 1
  /\ fetchEffect' = (fetchEffect \/ currentPage # 1)
  /\ IF Trim(filters.query) # <<>> /\ ~HistoryCapped
       THEN /\ searchHistory' = recordSearch(searchHistory, filters.query)
            /\ homeEffect' = TRUE
       ELSE /\ homeEffect' = FALSE
            /\ UNCHANGED searchHistory
  /\ filtersChanged' = FALSE
  /\ UNCHANGED <<envVars, route, navigations, toggleVars, historyVars, filters,
                 hookVars, gwVars>>

(***************************************************************************)
(* useSupabaseBuildings.                                                   *)
(***************************************************************************)
\* The arguments the mounted page passes to the hook.
hookFilters == IF route = "home" THEN filters ELSE defaultFilters
hookPage == IF route = "home" THEN currentPage ELSE 1
hookLimit == IF route = "home" THEN itemsPerPage ELSE detailLimit

\* The mock branch of fetchBuildings (also its SupabaseApiError fallback):
\* filter mockBuildings locally, slice the page.
mockResult_NextPage(f, page, limit) ==
  LET filtered == utilsSearchBuildings(mockBuildings, f)
      startIndex == page * limit
      paginatedResults == Slice(filtered, startIndex, startIndex + limit)
  IN  Ok(paginatedResults, Len(filtered))

mockResult(f, page, limit) ==
  LET filtered == utilsSearchBuildings(mockBuildings, f)
      startIndex == (page - 1) * limit
      paginatedResults == Slice(filtered, startIndex, startIndex + limit)
  IN  Ok(paginatedResults, Len(filtered))

\* The try block of fetchBuildings: the search API when a query, building
\* types or prefectures are given, the list API otherwise.
remoteResult(ord, dbError, f, page, limit) ==
  IF f.query # <<>> \/ f.buildingTypes # {} \/ f.prefectures # {}
    THEN searchBuildings(ord, dbError, f)
    ELSE getBuildings(ord, dbError, page, limit)

\* A run of fetchBuildings: its arguments and, as history, whether a
\* healthCheck had failed when it started (in the session, on this page).
Request == [filters |-> hookFilters, page |-> hookPage, limit |-> hookLimit,
            afterFailure |-> failedEver, afterFailureHere |-> failedHere]

Settled(src, req) == [src |-> src, afterFailure |-> req.afterFailure,
                      afterFailureHere |-> req.afterFailureHere]

\* When the answer of call i is handled, a later run of fetchBuildings has
\* started if a later call is in flight, and has completed if useApi is off:
\* the effect that ran the mock branch came before the answer.
superseded(i) == i < Len(inflight) \/ ~useApi

RemoveAt(seq, i) == SubSeq(seq, 1, i - 1) \o SubSeq(seq, i + 1, Len(seq))

\* fetchBuildings with useApi off: served from mockBuildings, synchronously.
fetchMock ==
  /\ ~toggleEffect
  /\ fetchEffect
  /\ ~useApi
  /\ fetchEffect' = FALSE
  /\ LET r == mockResult(hookFilters, hookPage, hookLimit)
     IN  /\ buildings' = r.buildings
         /\ total' = r.total
  /\ homeEffect' = (route = "home")
  /\ lastFetch' = Settled("mock", Request)
  /\ UNCHANGED <<envVars, route, navigations, toggleVars, historyVars, pageVars,
                 loading, error, inflight, gwVars>>

\* fetchBuildings with useApi on, up to its await: setLoading(true),
\* setError(null), and the gateway call is on its way.
fetchRemote ==
  /\ ~toggleEffect
  /\ fetchEffect
  /\ useApi
  /\ Len(inflight) < MaxInflight
  /\ fetchEffect' = FALSE
  /\ loading' = TRUE
  /\ error' = None
  /\ inflight' = Append(inflight, Request)
  /\ UNCHANGED <<envVars, route, navigations, toggleVars, historyVars, pageVars,
                 homeEffect, buildings, total, lastFetch, gwVars>>

\* The gateway call of request i returned: setBuildings, setTotal.
fetchSucceeded_DropsStale(i) ==
  /\ EffectsFlushed
  /\ i \in 1..Len(inflight)
  /\ \E ord \in Orderings(table), dbError \in BOOLEAN :
       LET req == inflight[i]
           r == remoteResult(ord, dbError, req.filters, req.page, req.limit)
       IN  /\ r.kind = "ok"
           /\ buildings' = IF superseded(i) THEN buildings ELSE r.buildings
           /\ total' = IF superseded(i) THEN total ELSE r.total
           /\ lastFetch' = Settled("remote", req)
  /\ inflight' = RemoveAt(inflight, i)
  /\ loading' = FALSE
  /\ homeEffect' = (route = "home")
  /\ UNCHANGED <<envVars, route, navigations, toggleVars, historyVars, pageVars,
                 error, fetchEffect, gwVars>>

fetchSucceeded(i) ==
  /\ EffectsFlushed
  /\ i \in 1..Len(inflight)
  /\ \E ord \in Orderings(table), dbError \in BOOLEAN :
       LET req == inflight[i]
           r == remoteResult(ord, dbError, req.filters, req.page, req.limit)
       IN  /\ r.kind = "ok"
           /\ buildings' = r.buildings
           /\ total' = r.total
           /\ lastFetch' = Settled("remote", req)
  /\ inflight' = RemoveAt(inflight, i)
  /\ loading' = FALSE
  /\ homeEffect' = (route = "home")
  /\ UNCHANGED <<envVars, route, navigations, toggleVars, historyVars, pageVars,
                 error, fetchEffect, gwVars>>

\* The gateway call threw a SupabaseApiError: setError, then the mock data
\* of the request's filters and page.
fetchApiError(i) ==
  /\ EffectsFlushed
  /\ i \in 1..Len(inflight)
  /\ \E ord \in Orderings(table), dbError \in BOOLEAN :
       LET req == inflight[i]
           r == remoteResult(ord, dbError, req.filters, req.page, req.limit)
           m == mockResult(req.filters, req.page, req.limit)
       IN  /\ r.kind = "SupabaseApiError"
           /\ error' = Some("Supabase API Error")
           /\ buildings' = m.buildings
           /\ total' = m.total
           /\ lastFetch' = Settled("fallback", req)
  /\ inflight' = RemoveAt(inflight, i)
  /\ loading' = FALSE
  /\ homeEffect' = (route = "home")
  /\ UNCHANGED <<envVars, route, navigations, toggleVars, historyVars, pageVars,
                 fetchEffect, gwVars>>

\* The gateway call threw something else: setError('Unknown error
\* occurred'); buildings and total stay as they are.
fetchUnknownError(i) ==
  /\ EffectsFlushed
  /\ i \in 1..Len(inflight)
  /\ \E ord \in Orderings(table), dbError \in BOOLEAN :
       LET req == inflight[i]
           r == remoteResult(ord, dbError, req.filters, req.page, req.limit)
       IN  /\ r.kind = "TypeError"
           /\ error' = Some("Unknown error occurred")
           /\ lastFetch' = Settled("unknown", req)
  /\ inflight' = RemoveAt(inflight, i)
  /\ loading' = FALSE
  /\ UNCHANGED <<envVars, route, navigations, toggleVars, historyVars, pageVars,
                 homeEffect, buildings, total, fetchEffect, gwVars>>

FetchSucceeded == \E i \in 1..MaxInflight : fetchSucceeded(i)

FetchApiError == \E i \in 1..MaxInflight : fetchApiError(i)

FetchUnknownError == \E i \in 1..MaxInflight : fetchUnknownError(i)

Next ==
  \/ checkApiStatus
  \/ checkSucceeded
  \/ checkFailed
  \/ navigate
  \/ FiltersChange
  \/ SearchFromHistory
  \/ PageChange
  \/ filterEffect
  \/ fetchMock
  \/ fetchRemote
  \/ FetchSucceeded
  \/ FetchApiError
  \/ FetchUnknownError

Spec == Init /\ [][Next]_vars

(***************************************************************************)
(* The gateway and the hook's two data paths applied to one call: the      *)
(* table and the call's arguments range over bounded sets.                 *)
(***************************************************************************)
NoCall == [op |-> "none"]

InitGateway ==
  /\ flag = TRUE
  /\ table \in Tables
  /\ InitPage
  /\ route = "home"
  /\ gwCall = NoCall
  /\ gwResp = [kind |-> "none"]
  /\ InitLikes

\* apiClient.getBuildings(page, limit)
callGetBuildings ==
  /\ gwCall = NoCall
  /\ \E ord \in Orderings(table), dbError \in BOOLEAN,
        page \in 1..MaxPage, limit \in 1..MaxLimit :
       /\ gwCall' = [op |-> "getBuildings", page |-> page, limit |-> limit]
       /\ gwResp' = getBuildings(ord, dbError, page, limit)
  /\ UNCHANGED <<envVars, route, navigations, toggleVars, historyVars, pageVars,
                 homeEffect, hookVars, fetchEffect, likeVars>>

\* apiClient.searchBuildings(filters)
callSearchBuildings ==
  /\ gwCall = NoCall
  /\ \E ord \in Orderings(table), dbError \in BOOLEAN, f \in FilterSet :
       /\ gwCall' = [op |-> "searchBuildings", filters |-> f]
       /\ gwResp' = searchBuildings(ord, dbError, f)
  /\ UNCHANGED <<envVars, route, navigations, toggleVars, historyVars, pageVars,
                 homeEffect, hookVars, fetchEffect, likeVars>>

\* fetchBuildings of HomePage's hook (limit = itemsPerPage) for given
\* filters and page: the try block when `remote`, the mock branch otherwise.
callFetchBuildings ==
  /\ gwCall = NoCall
  /\ \E ord \in Orderings(table), dbError \in BOOLEAN, f \in FilterSet,
        page \in 1..MaxPage, remote \in BOOLEAN :
       /\ gwCall' = [op |-> "fetchBuildings", remote |-> remote, filters |-> f,
                     page |-> page, limit |-> itemsPerPage]
       /\ gwResp' = IF remote THEN remoteResult(ord, dbError, f, page, itemsPerPage)
                    ELSE mockResult(f, page, itemsPerPage)
  /\ UNCHANGED <<envVars, route, navigations, toggleVars, historyVars, pageVars,
                 homeEffect, hookVars, fetchEffect, likeVars>>

\* apiClient.getBuildingById(id)
callGetBuildingById ==
  /\ gwCall = NoCall
  /\ \E dbError \in BOOLEAN, id \in 1..(Cardinality(CandidateRows) + 1) :
       /\ gwCall' = [op |-> "getBuildingById", id |-> id, dbError |-> dbError]
       /\ gwResp' = getBuildingById(table, dbError, id)
  /\ UNCHANGED <<envVars, route, navigations, toggleVars, historyVars, pageVars,
                 homeEffect, hookVars, fetchEffect, likeVars>>

\* The rows of the table as a procedure returns them: without the embedded
\* relations of the gateway's select.
Unjoined(r) == [r EXCEPT !.building_architects = <<>>]

\* apiClient.getNearbyBuildings(lat, lng, radius); the procedure's body is
\* not part of the client: it answers with rows of the table, or an error.
callGetNearbyBuildings ==
  /\ gwCall = NoCall
  /\ \E rpcError \in BOOLEAN, S \in SUBSET table, ord \in Orderings(table),
        dbError \in BOOLEAN, radius \in {homeRadius} :
       /\ gwCall' = [op |-> "getNearbyBuildings", lat |-> 35000, lng |-> 139000,
                     radius |-> radius, rpcError |-> rpcError, dbError |-> dbError]
       /\ gwResp' = getNearbyBuildings(rpcError, [i \in 1..Cardinality(S) |-> Unjoined(ById(S)[i])],
                                       ord, dbError, 35000, 139000, radius)
  /\ UNCHANGED <<envVars, route, navigations, toggleVars, historyVars, pageVars,
                 homeEffect, hookVars, fetchEffect, likeVars>>

\* apiClient.getSearchSuggestions(query)
callGetSearchSuggestions ==
  /\ gwCall = NoCall
  /\ \E dbError \in BOOLEAN, query \in {<<>>, <<"a">>, <<"B">>} :
     \E S \in SuggestionRowSets(table, query) :
       /\ gwCall' = [op |-> "getSearchSuggestions", query |-> query, dbError |-> dbError]
       /\ gwResp' = getSearchSuggestions(ById(S), dbError, query)
  /\ UNCHANGED <<envVars, route, navigations, toggleVars, historyVars, pageVars,
                 homeEffect, hookVars, fetchEffect, likeVars>>

\* Answers of the search_logs query: no data, no rows, rows in descending count.
SearchLogAnswers ==
  {None, Some(<<>>), Some(<<[query |-> "a", count |-> 3], [query |-> "b", count |-> 1]>>)}

\* apiClient.getPopularSearches()
callGetPopularSearches ==
  /\ gwCall = NoCall
  /\ \E dbError \in BOOLEAN, data \in SearchLogAnswers :
       /\ gwCall' = [op |-> "getPopularSearches", dbError |-> dbError]
       /\ gwResp' = getPopularSearches(data, dbError)
  /\ UNCHANGED <<envVars, route, navigations, toggleVars, historyVars, pageVars,
                 homeEffect, hookVars, fetchEffect, likeVars>>

\* What useSupabaseBuildings holds once one run of fetchBuildings, started
\* from the initial state, has settled: the route that served it, buildings
\* and total.
settledFetch(remote, ord, dbError, f, page, limit) ==
  LET r == remoteResult(ord, dbError, f, page, limit)
      m == mockResult(f, page, limit)
      usesSearch == f.query # <<>> \/ f.buildingTypes # {} \/ f.prefectures # {}
  IN  IF ~remote THEN [served |-> "mock", buildings |-> m.buildings, total |-> m.total]
      ELSE IF r.kind = "ok"
        THEN [served |-> IF usesSearch THEN "search" ELSE "list",
              buildings |-> r.buildings, total |-> r.total]
      ELSE IF r.kind = "SupabaseApiError"
        THEN [served |-> "fallback", buildings |-> m.buildings, total |-> m.total]
      ELSE [served |-> "unknown", buildings |-> <<>>, total |-> 0]

\* HomePage's currentBuildings for a page size: filteredBuildings as the
\* effect sets it, sliced only when useApi is off.
currentBuildings(api, held, f, page, perPage) ==
  LET filtered == IF api THEN held ELSE utilsSearchBuildings(held, f)
      startIndex == (page - 1) * perPage
  IN  IF api THEN filtered ELSE Slice(filtered, startIndex, startIndex + perPage)

\* useSupabaseBuildings(filters, page, limit, useApi) mounted and its first
\* fetch settled.
callUseSupabaseBuildings ==
  /\ gwCall = NoCall
  /\ \E ord \in Orderings(table), dbError \in BOOLEAN, f \in FilterSet,
        page \in 1..MaxPage, limit \in 1..MaxLimit, remote \in BOOLEAN :
       /\ gwCall' = [op |-> "useSupabaseBuildings", remote |-> remote, filters |-> f,
                     page |-> page, limit |-> limit]
       /\ gwResp' = settledFetch(remote, ord, dbError, f, page, limit)
  /\ UNCHANGED <<envVars, route, navigations, toggleVars, historyVars, pageVars,
                 homeEffect, hookVars, fetchEffect, likeVars>>

NextGateway ==
  \/ callGetBuildings
  \/ callSearchBuildings
  \/ callFetchBuildings
  \/ callGetBuildingById
  \/ callGetNearbyBuildings
  \/ callGetSearchSuggestions
  \/ callGetPopularSearches
  \/ callUseSupabaseBuildings

SpecGateway == InitGateway /\ [][NextGateway]_vars

(***************************************************************************)
(* The pages under fair scheduling: a due effect runs, and a healthCheck   *)
(* in flight settles whatever the user does meanwhile.                     *)
(***************************************************************************)
SpecLive ==
  /\ Spec
  /\ WF_vars(checkApiStatus)
  /\ WF_vars(fetchMock \/ fetchRemote)
  /\ WF_vars(filterEffect)
  /\ SF_vars(checkSucceeded \/ checkFailed)

(***************************************************************************)
(* Properties of the availability toggle.                                  *)
(***************************************************************************)
\* C5: with the configuration flag off, healthCheck is never invoked (no
\* call is ever in flight and none ever settles), useApi stays false and
\* apiStatus only goes from 'checking' to 'unavailable'.
C5_FlagOffNeverProbes ==
  ~flag =>
    /\ probes = 0
    /\ ~okEver /\ ~failedEver
    /\ ~useApi
    /\ apiStatus \in {"checking", "unavailable"}
    /\ (~toggleEffect => apiStatus = "unavailable")

C5_Witness == ~flag /\ apiStatus = "unavailable" /\ ~toggleEffect /\ lastFetch.src = "mock"

\* C4: in every state with apiStatus = 'available', a healthCheck of the
\* mounted page has completed successfully before.
C4_AvailableOnlyAfterSuccess == apiStatus = "available" => okHere

C4_Witness == apiStatus = "available" /\ okHere /\ lastFetch.src = "remote"

InWindow(n, start, limit) ==
  IF start >= n THEN 0 ELSE IF start + limit <= n THEN limit ELSE n - start

MockSet == {mockBuildings[k] : k \in 1..MockSize}

\* C2: a run of fetchBuildings with useApi = false invokes no gateway
\* operation (no request and no healthCheck goes in flight), sets buildings
\* to the items at offsets [(page-1)*limit, (page-1)*limit+limit) of the
\* locally filtered mock dataset and total to the size of the whole
\* filtered set.
C2_MockFetch ==
  [][(~useApi /\ fetchEffect /\ ~fetchEffect') =>
       LET filtered == utilsSearchBuildings(mockBuildings, hookFilters)
           start == (hookPage - 1) * hookLimit
           n == InWindow(Len(filtered), start, hookLimit)
       IN  /\ inflight' = inflight
           /\ probes' = probes
           /\ Len(buildings') = n
           /\ \A k \in 1..n : buildings'[k] = filtered[start + k]
           /\ total' = Len(filtered)
           /\ lastFetch'.src = "mock"]_vars

C2_Witness ==
  /\ lastFetch.src = "mock"
  /\ ~fetchEffect
  /\ currentPage = 2
  /\ Len(buildings) = 1
  /\ total = MockSize

C6_AnyErrorFallsBack ==
  [][\A i \in 1..Len(inflight) :
       (inflight' = RemoveAt(inflight, i) /\ lastFetch'.src \in {"fallback", "unknown"}) =>
         LET req == inflight[i]
             filtered == utilsSearchBuildings(mockBuildings, req.filters)
             start == (req.page - 1) * req.limit
             n == InWindow(Len(filtered), start, req.limit)
         IN  /\ Len(buildings') = n
             /\ \A k \in 1..n : buildings'[k] = filtered[start + k]
             /\ total' = Len(filtered)
             /\ useApi' = useApi
             /\ apiStatus' = apiStatus]_vars

C6_Witness ==
  /\ useApi
  /\ lastFetch.src = "unknown"
  /\ error = Some("Unknown error occurred")
  /\ buildings = <<>>

(***************************************************************************)
(* Properties of the gateway's list and search.                            *)
(***************************************************************************)
Ids(bs) == {bs[k].id : k \in 1..Len(bs)}

Normalises(t) == \A r \in t : ~transformThrows(r)

\* C7: for every filter and every dataset, the ids that survive the remote
\* path the fetch hook selects equal the ids of the rows that satisfy the
\* local predicate (first page, page size above the size of the dataset).
C7_RemoteEqualsLocal ==
  (/\ gwCall.op = "fetchBuildings"
   /\ gwCall.remote
   /\ gwCall.page = 1
   /\ gwResp.kind = "ok"
   /\ Normalises(table)) =>
    Ids(gwResp.buildings) =
      {r.building_id : r \in {x \in table : BuildingMatches(transformBuilding(x), gwCall.filters)}}

\* C8: list(page, limit) returns the items at offsets (page-1)*limit ..
\* (page-1)*limit+limit-1 of the table ordered by completionYears, and its
\* total is the number of rows of the table.
C8_ListPageAndTotal ==
  (gwCall.op = "getBuildings" /\ gwResp.kind = "ok") =>
    /\ \E ord \in Orderings(table) :
         LET start == (gwCall.page - 1) * gwCall.limit
             n == InWindow(Len(ord), start, gwCall.limit)
         IN  /\ Len(gwResp.buildings) = n
             /\ \A k \in 1..n : gwResp.buildings[k].id = ord[start + k].building_id
    /\ gwResp.total = Cardinality(table)

\* C9: with hasPhotos = true no returned building has an empty thumbnail
\* reference, and with hasVideos = true none has an empty video reference,
\* on the remote path and on the mock path.
C9_MediaFiltersExclude ==
  (gwCall.op = "fetchBuildings" /\ gwResp.kind = "ok") =>
    /\ gwCall.filters.hasPhotos =>
         \A k \in 1..Len(gwResp.buildings) : gwResp.buildings[k].thumbnailUrl # ""
    /\ gwCall.filters.hasVideos =>
         \A k \in 1..Len(gwResp.buildings) : gwResp.buildings[k].youtubeUrl # ""

\* C10: the buildings list and search return are in ascending order of
\* their (normalised) completionYears.
C10_AscendingYears ==
  (gwCall.op \in {"getBuildings", "searchBuildings"} /\ gwResp.kind = "ok") =>
    \A k \in 1..(Len(gwResp.buildings) - 1) :
      gwResp.buildings[k].completionYears <= gwResp.buildings[k + 1].completionYears

\* C11: suggestions, popular and nearby never surface an error to their
\* caller, whatever the backend answers: every call of the three returns.
C11_BestEffortNeverThrows ==
  gwCall.op \in {"getSearchSuggestions", "getPopularSearches", "getNearbyBuildings"}
    => gwResp.kind = "ok"

\* The nearby call whose procedure and whose fallback search both failed.
C11_Witness ==
  /\ gwCall.op = "getNearbyBuildings"
  /\ gwCall.rpcError /\ gwCall.dbError

\* C12: getById fails with status 404 exactly when the lookup selects no
\* row; a backend error fails with status 500; otherwise the normalized row
\* is returned.
C12_NotFoundIffNoRow ==
  gwCall.op = "getBuildingById" =>
    LET rows == {r \in InnerJoined(table) : r.building_id = gwCall.id}
    IN  /\ gwResp = ApiError(404) <=> (~gwCall.dbError /\ rows = {})
        /\ gwCall.dbError => gwResp = ApiError(500)
        /\ (~gwCall.dbError /\ rows # {}) => gwResp.kind = "ok"

\* The lookup of a stored building answered with a backend error.
C12_Witness ==
  /\ gwCall.op = "getBuildingById"
  /\ gwCall.dbError
  /\ \E r \in InnerJoined(table) : r.building_id = gwCall.id

(***************************************************************************)
(* getSearchSuggestions over tables large enough for .limit(10) to bind.   *)
(***************************************************************************)
MaxTitleRows == 11

RECURSIVE Numeral(_)
Numeral(i) ==
  IF i < 10 THEN <<Digits[i + 1]>> ELSE Numeral(i \div 10) \o <<Digits[(i % 10) + 1]>>

\* Rows with pairwise different titles "a<i>"; titleEn is a different text
\* matching the same queries ("A<i>"), a text matching other queries
\* ("b<i>"), or the title again.
TitleRow(i) ==
  Row(i, <<"a">> \o Numeral(i),
      IF i % 3 = 1 THEN Some(<<"A">> \o Numeral(i))
      ELSE IF i % 3 = 2 THEN Some(<<"b">> \o Numeral(i))
      ELSE Some(<<"a">> \o Numeral(i)),
      <<"b">>, None, None, None, None, None, None, <<>>)

TitleRows == {TitleRow(i) : i \in 1..MaxTitleRows}

InitSuggest ==
  /\ flag = TRUE
  /\ table \in SUBSET TitleRows
  /\ InitPage
  /\ route = "home"
  /\ gwCall = NoCall
  /\ gwResp = [kind |-> "none"]
  /\ InitLikes

NextSuggest == callGetSearchSuggestions

SpecSuggest == InitSuggest /\ [][NextSuggest]_vars

\* C14: suggestions returns at most 10 suggestions, none of them twice, and
\* the empty sequence on a backend error.
C14_AtMostTenDistinct ==
  gwCall.op = "getSearchSuggestions" =>
    /\ Len(gwResp.suggestions) <= 10
    /\ \A i, j \in 1..Len(gwResp.suggestions) :
         gwResp.suggestions[i] = gwResp.suggestions[j] => i = j
    /\ gwCall.dbError => gwResp.suggestions = <<>>

\* A suggestions call answered from a table with more matching rows than
\* the limit.
C14_Witness ==
  /\ gwCall.op = "getSearchSuggestions"
  /\ ~gwCall.dbError
  /\ Cardinality({r \in table : ILike(Some(r.title), gwCall.query)}) > suggestionLimit

(***************************************************************************)
(* Likes.  The client calls a remote procedure that increments and returns *)
(* the counter; calls may overlap.                                         *)
(***************************************************************************)
MaxLikeCalls == 3

\* likeBuilding / likePhoto after the rpc answered with `data` or an error.
likeBuilding_CachedCount(data, rpcError) ==
  IF rpcError THEN ApiError(500) ELSE [kind |-> "ok", likes |-> 1]

likeBuilding(data, rpcError) ==
  IF rpcError THEN ApiError(500) ELSE [kind |-> "ok", likes |-> data]

likePhoto(data, rpcError) ==
  IF rpcError THEN ApiError(500) ELSE [kind |-> "ok", likes |-> data]

\* increment_building_likes / increment_photo_likes: one atomic statement
\* that adds one to the target's counter and returns the new value.
increment_likes(counts, target) == [counts EXCEPT ![target] = @ + 1]

InitLikeCalls ==
  /\ flag = TRUE
  /\ table = {}
  /\ InitPage
  /\ route = "home"
  /\ gwCall = NoCall
  /\ gwResp = [kind |-> "none"]
  /\ InitLikes

\* The client issues supabase.rpc(...); `after` is the set of calls that had
\* returned by then.
callLike ==
  /\ Len(likeCalls) < MaxLikeCalls
  /\ \E target \in LikeTargets :
       likeCalls' = Append(likeCalls,
                           [target |-> target, state |-> "sent", rpcError |-> FALSE, data |-> 0,
                            result |-> [kind |-> "none"],
                            after |-> {i \in 1..Len(likeCalls) : likeCalls[i].state = "returned"}])
  /\ UNCHANGED <<envVars, route, navigations, toggleVars, historyVars, pageVars,
                 homeEffect, hookVars, fetchEffect, gwCall, gwResp, likes>>

\* The backend runs the procedure for a call.
rpcIncrement ==
  /\ \E i \in 1..Len(likeCalls) :
       /\ likeCalls[i].state = "sent"
       /\ likes' = increment_likes(likes, likeCalls[i].target)
       /\ likeCalls' = [likeCalls EXCEPT ![i].state = "answered",
                                         ![i].data = likes'[likeCalls[i].target]]
  /\ UNCHANGED <<envVars, route, navigations, toggleVars, historyVars, pageVars,
                 homeEffect, hookVars, fetchEffect, gwCall, gwResp>>

\* The backend is unreachable or rejects the call.
rpcFails ==
  /\ \E i \in 1..Len(likeCalls) :
       /\ likeCalls[i].state = "sent"
       /\ likeCalls' = [likeCalls EXCEPT ![i].state = "answered", ![i].rpcError = TRUE]
  /\ UNCHANGED <<envVars, route, navigations, toggleVars, historyVars, pageVars,
                 homeEffect, hookVars, fetchEffect, gwCall, gwResp, likes>>

\* The await of likeBuilding / likePhoto resumes with the answer.
likeReturns ==
  /\ \E i \in 1..Len(likeCalls) :
       LET c == likeCalls[i]
       IN  /\ c.state = "answered"
           /\ likeCalls' = [likeCalls EXCEPT
                              ![i].state = "returned",
                              ![i].result = IF c.target.kind = "building"
                                            THEN likeBuilding(c.data, c.rpcError)
                                            ELSE likePhoto(c.data, c.rpcError)]
  /\ UNCHANGED <<envVars, route, navigations, toggleVars, historyVars, pageVars,
                 homeEffect, hookVars, fetchEffect, gwCall, gwResp, likes>>

NextLikes ==
  \/ callLike
  \/ rpcIncrement
  \/ rpcFails
  \/ likeReturns

SpecLikes == InitLikeCalls /\ [][NextLikes]_vars

\* C13: the successful like calls for one target return pairwise different
\* counts, a call made after another returned gets the larger count, the
\* count returned is the number of increments made so far at most, and a
\* call answered with a backend error fails with status 500 and no count.
C13_LikesIncrease ==
  \A j \in 1..Len(likeCalls) :
    likeCalls[j].state = "returned" =>
      /\ likeCalls[j].rpcError => likeCalls[j].result = ApiError(500)
      /\ ~likeCalls[j].rpcError =>
           /\ likeCalls[j].result.kind = "ok"
           /\ likeCalls[j].result.likes \in 1..likes[likeCalls[j].target]
           /\ \A i \in 1..Len(likeCalls) :
                ( /\ i # j
                  /\ likeCalls[i].state = "returned"
                  /\ likeCalls[i].result.kind = "ok"
                  /\ likeCalls[i].target = likeCalls[j].target )
                => /\ likeCalls[i].result.likes # likeCalls[j].result.likes
                   /\ i \in likeCalls[j].after
                        => likeCalls[i].result.likes < likeCalls[j].result.likes

\* Two overlapping successful calls for one building have returned, and a
\* call answered with an error has returned.
C13_Witness ==
  \E i, j, k \in 1..Len(likeCalls) :
    /\ i < j
    /\ i \notin likeCalls[j].after
    /\ likeCalls[i].target = likeCalls[j].target
    /\ likeCalls[i].target.kind = "building"
    /\ likeCalls[i].result.kind = "ok" /\ likeCalls[j].result.kind = "ok"
    /\ likeCalls[k].result = ApiError(500)

(***************************************************************************)
(* The Row Normalizer applied to one raw row.                              *)
(***************************************************************************)
InitNormalizer ==
  /\ flag = TRUE
  /\ table = {}
  /\ InitPage
  /\ route = "home"
  /\ gwCall = NoCall
  /\ gwResp = [kind |-> "none"]
  /\ InitLikes

\* this.transformBuilding(data)
callTransformBuilding ==
  /\ gwCall = NoCall
  /\ \E data \in RawRows :
       /\ gwCall' = [op |-> "transformBuilding", data |-> data]
       /\ gwResp' = normalize(data)
  /\ UNCHANGED <<envVars, route, navigations, toggleVars, historyVars, pageVars,
                 homeEffect, hookVars, fetchEffect, likeVars>>

\* this.transformBuilding(this.transformBuilding(data))
callTransformTwice ==
  /\ gwCall = NoCall
  /\ \E data \in RawRows :
       /\ gwCall' = [op |-> "transformTwice", data |-> data]
       /\ gwResp' = LET once == normalize(data)
                    IN  IF once.kind = "ok" THEN renormalize(once.building) ELSE once
  /\ UNCHANGED <<envVars, route, navigations, toggleVars, historyVars, pageVars,
                 homeEffect, hookVars, fetchEffect, likeVars>>

NextNormalizer ==
  \/ callTransformBuilding
  \/ callTransformTwice

SpecNormalizer == InitNormalizer /\ [][NextNormalizer]_vars

(***************************************************************************)
(* Properties of the Row Normalizer.                                       *)
(***************************************************************************)
Blank(x) == x = None \/ x[1] = <<>>

TrimmedNonEmpty(pieces) ==
  \A k \in 1..Len(pieces) : pieces[k] # <<>> /\ Trim(pieces[k]) = pieces[k]

\* C15: for every raw row, whichever nullable columns and embedded
\* relations are null, transformBuilding returns a Building with id = the
\* primary key, titleEn = title when the source titleEn is blank, thumbnail
\* and video references '' rather than null, lat/lng = 0 when missing,
\* completionYears = the current year when missing or unparsable, and
\* every taxonomy field a sequence of trimmed non-empty strings.
C15_NormalizeTotal ==
  gwCall.op = "transformBuilding" =>
    /\ gwResp.kind = "ok"
    /\ LET d == gwCall.data
           b == gwResp.building
       IN  /\ b.id = d.building_id
           /\ Blank(d.titleEn) => b.titleEn = b.title
           /\ (d.thumbnailUrl = None => b.thumbnailUrl = "")
           /\ (d.youtubeUrl = None => b.youtubeUrl = "")
           /\ (d.lat = None => b.lat = 0)
           /\ (d.lng = None => b.lng = 0)
           /\ (Blank(d.completionYears) \/ d.completionYears = Some(<<"u">>)) =>
                b.completionYears = CurrentYear
           /\ TrimmedNonEmpty(b.parentBuildingTypes)
           /\ TrimmedNonEmpty(b.buildingTypes)
           /\ TrimmedNonEmpty(b.parentStructures)
           /\ TrimmedNonEmpty(b.structures)

\* C16: transformBuilding applied to its own result returns without failing
\* and equals the first result field for field.
C16_NormalizeIdempotent ==
  (gwCall.op = "transformTwice" /\ normalize(gwCall.data).kind = "ok") =>
    gwResp = normalize(gwCall.data)

\* C17: the photos of a normalised Building are the entries of the row's
\* photos relation, in order, when the row carries one, and the empty
\* sequence when it carries none.
C17_PhotosFromRelation ==
  (gwCall.op = "transformBuilding" /\ gwResp.kind = "ok") =>
    gwResp.building.photos =
      (IF gwCall.data.photos = None THEN <<>> ELSE gwCall.data.photos[1])

(***************************************************************************)
(* Overlapping fetches, the search history and pagination of HomePage.     *)
(***************************************************************************)
\* C18: fetches are not cancelled or guarded against their successors: the
\* response of a call that a later run of fetchBuildings superseded is
\* applied like any other: whenever a call in flight is answered, superseded
\* or not, the hook takes the buildings and total of that call's request.
C18_SupersededResponseApplied ==
  [][(Len(inflight') < Len(inflight) /\ navigations' = navigations) =>
       \E i \in 1..Len(inflight) :
         LET req == inflight[i]
         IN  /\ inflight' = RemoveAt(inflight, i)
             /\ \/ /\ lastFetch'.src = "remote"
                   /\ \E ord \in Orderings(table) :
                        remoteResult(ord, FALSE, req.filters, req.page, req.limit)
                          = Ok(buildings', total')
                \/ /\ lastFetch'.src = "fallback"
                   /\ mockResult(req.filters, req.page, req.limit) = Ok(buildings', total')
                \/ /\ lastFetch'.src = "unknown"
                   /\ buildings' = buildings /\ total' = total]_vars

\* The toggle switched to mock data and the mock fetch completed, then the
\* remote response of the superseded call arrived: the page, in mock mode
\* and at rest, holds the remote rows.
C18_Witness ==
  /\ lastFetch.src = "remote"
  /\ ~useApi
  /\ inflight = <<>>
  /\ EffectsFlushed
  /\ buildings # mockResult(hookFilters, hookPage, hookLimit).buildings

\* C19: the search history is written once per change of the filters: only
\* the run of the effect that a filters change made due writes it, and the
\* write does not make the effect due again.
C19_OneHistoryWritePerChange ==
  [][(searchHistory' # searchHistory /\ navigations' = navigations) =>
       (filtersChanged /\ ~homeEffect')]_vars

\* The effect has recorded the query of a filters change.
C19_Witness ==
  /\ Trim(filters.query) # <<>>
  /\ Len(searchHistory) = 1
  /\ searchHistory[1] = [query |-> filters.query, count |-> 1]

\* C20: currentPage goes back to 1 only when the filters change: a run of
\* the effect that takes currentPage from a page p > 1 to 1 is one that a
\* filters change made due, so that after handlePageChange(p) alone the page
\* stays p.
C20_PageResetOnlyOnFiltersChange ==
  [][(homeEffect /\ currentPage # 1 /\ currentPage' = 1 /\ navigations' = navigations) =>
       filtersChanged]_vars

\* handlePageChange(2) has set the page, the filters unchanged, and the
\* fetch of page 2 is due.
C20_Witness ==
  /\ currentPage = 2
  /\ ~filtersChanged
  /\ fetchEffect

(***************************************************************************)
(* useSupabaseToggle's state and useSupabaseBuildings' page of buildings.  *)
(***************************************************************************)
\* The effect of useSupabaseToggle has run and no healthCheck is awaited.
CheckCompleted == ~toggleEffect /\ probes = 0

\* C21: in every state of a mounted useSupabaseToggle, apiStatus =
\* 'available' implies useApi, and once the check has completed, useApi off
\* implies apiStatus = 'unavailable'.
C21_StatusMatchesUseApi ==
  /\ apiStatus = "available" => useApi
  /\ (CheckCompleted /\ ~useApi) => apiStatus = "unavailable"

\* The flag is on, the healthCheck failed and the effect has run again.
C21_Witness ==
  /\ flag
  /\ failedHere
  /\ CheckCompleted
  /\ ~useApi
  /\ apiStatus = "unavailable"

\* The buildings a settled fetch should count: the mock buildings the
\* local predicate keeps, or the rows of the table the query selects.
MatchingCount(served, f) ==
  IF served \in {"mock", "fallback"} THEN Len(utilsSearchBuildings(mockBuildings, f))
  ELSE IF served = "search" THEN Cardinality({r \in InnerJoined(table) : RowMatches(r, f)})
  ELSE Cardinality(InnerJoined(table))

\* C22: once the fetch has settled, whichever route served it (remote list,
\* remote search, mock, per-call fallback), the hook holds at most `limit`
\* buildings, the page shows at most a page of them, and total is the
\* number of all matching buildings.
C22_AtMostLimit ==
  (gwCall.op = "useSupabaseBuildings" /\ gwResp.served # "unknown") =>
    /\ Len(gwResp.buildings) <= gwCall.limit
    /\ Len(currentBuildings(gwCall.remote, gwResp.buildings, gwCall.filters,
                            gwCall.page, gwCall.limit)) <= gwCall.limit
    /\ gwResp.total = MatchingCount(gwResp.served, gwCall.filters)

\* A fetch served by the remote search from a table with more matching
\* rows than the limit.
C22_Witness ==
  /\ gwCall.op = "useSupabaseBuildings"
  /\ gwResp.served = "search"
  /\ Cardinality({r \in InnerJoined(table) : RowMatches(r, gwCall.filters)}) > gwCall.limit

====
